---- MODULE Spec2Model ----
(***************************************************************************)
(* State-machine model of reddit_fb_scraper's item pipeline,               *)
(* DedupeDownloadUploadPipeline (src/reddit_fb_scraper/pipelines.py), and  *)
(* of its spider, RedditMediaSpider (spiders/reddit_media.py).             *)
(*                                                                         *)
(* Durable state: the SQLite table `posted` (rows) and the media files on  *)
(* disk (disk).  External state: the uploads the destination acknowledged  *)
(* (published).  Volatile state: the position and the locals of each       *)
(* process_item() call (call), lost when the process is killed.            *)
(*                                                                         *)
(* process_item() is split at the points where the outside world can act   *)
(* or the process can be killed: the HTTP fetch attempts, the existence    *)
(* check, the upload request, the commit of each row, the rate-limit sleep.*)
(* Of the table's columns the model keeps post_id, post_type, local_path,  *)
(* fb_post_id, upload_status and error_message; the remaining columns are  *)
(* verbatim copies of item fields.                                         *)
(***************************************************************************)
EXTENDS Integers, Sequences, FiniteSets, TLC

(***************************************************************************)
(* Bounds of the model.                                                    *)
(***************************************************************************)
MaxPosts == 1          \* post ids 1..MaxPosts
MaxCrashes == 1        \* process kills followed by a restart
MaxSpiderPosts == 6    \* distinct post ids in the listings the spider reads

PostIds == 1..MaxPosts

\* The callers of process_item.  Scrapy drives the pipeline serially: one
\* caller (SerialProcs).  The second caller acts only under SpecPar.
Procs == {1, 2}
SerialProcs == {1}

(***************************************************************************)
(* Program constants.                                                      *)
(***************************************************************************)
max_retries == 3            \* _download_direct(max_retries=3)
MinFileSize == 1024         \* os.path.getsize(path) < 1024
BackoffBase == 1            \* time.sleep(1 + attempt)
UPLOAD_MIN_DELAY == 2       \* default of the environment variable
UPLOAD_MAX_DELAY == 6
VideoTarget == 2            \* self.video_count >= 2
ImageTarget == 3            \* self.image_count >= 3

(***************************************************************************)
(* Values.                                                                 *)
(***************************************************************************)
\* SQL NULL / Python None for each column type.
NoPath == [kind |-> "none", n |-> 0, ext |-> ""]
NoId == "<null>"
NoError == [fmt |-> "<null>", code |-> 0, detail |-> "<null>"]

\* item["type"]; "None" is the spider's initial item["type"] = None.
SupportedTypes == {"image", "video"}
Types == SupportedTypes \cup {"external", "preview", "None"}

\* item["url"] as the sequence of its parts after the host: <<>> is None,
\* "?" starts the query string, a part starting with "." is a suffix.
Suffixes == {".png", ".gif"}
Urls == { <<>>, <<"v">> }

\* os.path.splitext(os.path.basename(url.split("?")[0]))[1]
RECURSIVE BeforeQuery(_)
BeforeQuery(url) ==
    IF url = <<>> \/ Head(url) = "?" THEN <<>>
    ELSE <<Head(url)>> \o BeforeQuery(Tail(url))

UrlExt(url) ==
    LET path == BeforeQuery(url) IN
    IF Len(path) >= 2 /\ path[Len(path)] \in Suffixes THEN path[Len(path)] ELSE ""

\* item["files"]: the list FilesPipeline fills, each entry with a "path"
\* relative to FILES_STORE.
FilesExts == {".jpg"}
FilesPaths == { [kind |-> "files", n |-> 0, ext |-> e] : e \in FilesExts }
FilesRefs == { <<>> } \cup { <<[path |-> fp]>> : fp \in FilesPaths }

Items == [post_id : PostIds, type : Types, url : Urls, files : FilesRefs]

\* Response headers' Content-Type (already split at ";" and stripped).
ContentTypes == {"", "image/jpeg"}
\* mimetypes.guess_extension: "image/jpeg" maps to ".jpg" or, on older
\* interpreters, to ".jpe"; an unknown type maps to None ("").
JpegGuesses == {".jpg", ".jpe"}
GuessExtension(content_type, jpeg) ==
    IF content_type = "image/jpeg" THEN jpeg ELSE ""

\* int(time.time() * 1000) at the moment a download names its file.
TimeTokens == {1}

\* Body sizes of a fetched response, in bytes.
BodySizes == {500, 1023, 1024}

\* Answers of the publish destination: status code and body text.
PostStatuses == {200, 404, 500}
PostTexts == {"987"}
RespOk(status) == status < 400

\* random.uniform(UPLOAD_MIN_DELAY, UPLOAD_MAX_DELAY): the ends of the interval.
RateDelays == {UPLOAD_MIN_DELAY, UPLOAD_MAX_DELAY}

\* Publish destinations (MAKE_WEBHOOK_URL per kind; the URLs themselves are
\* deployment configuration).
VideoWebhook == "video"
PhotoWebhook == "photo"

VARIABLES
    rows,        \* the table `posted`: a set of rows
    disk,        \* the paths under FILES_STORE that exist
    published,   \* post_id -> destinations that acknowledged an upload of it
    call,        \* caller -> position and locals of its process_item() call
    crashes,     \* process kills so far
    requests,    \* post_id -> upload requests sent to the destination for it
    spider       \* the state of RedditMediaSpider
vars == <<rows, disk, published, call, crashes, requests, spider>>

\* RedditMediaSpider.__init__ (lines 21-28), before start_requests.  None is
\* "" for last_after.  History: the items yielded so far (emitted) and their
\* number per type (out_video, out_image).
NewSpider ==
    [pc |-> "new", video_count |-> 0, image_count |-> 0, seen_ids |-> {},
     last_after |-> "", emitted |-> {}, out_video |-> 0, out_image |-> 0]

NoItem == [post_id |-> 0, type |-> "None", url |-> <<>>, files |-> <<>>]

\* A caller outside process_item(); also the locals at entry (lines 59-69).
IdleCall ==
    [pc |-> "idle", item |-> NoItem, local_path |-> NoPath,
     attempt |-> 0, tries |-> <<>>, waits |-> <<>>,
     bodies |-> <<>>, ctype |-> "-", wrote |-> NoPath,
     pre |-> NoPath, status |-> 0, fb |-> NoId, dest |-> "none", delay |-> 0,
     nrec |-> 0, nreq |-> 0, nsleep |-> 0,
     result |-> "none", rows0 |-> {}]

(***************************************************************************)
(* Helpers of the pipeline.                                                *)
(***************************************************************************)
\* (mutant) only posts recorded as uploaded count as seen.
IsPostedSuccessOnly(tbl, post_id) ==
    \E r \in tbl : r.post_id = post_id /\ r.upload_status = "success"

\* (mutant) the dedup lookup finds nothing.
IsPostedNever(tbl, post_id) == FALSE

\* SELECT 1 FROM posted WHERE post_id = ?
IsPosted(tbl, post_id) == \E r \in tbl : r.post_id = post_id

Row(item, local_path, fb_post_id, status, error) ==
    [post_id |-> item.post_id, post_type |-> item.type,
     local_path |-> local_path, fb_post_id |-> fb_post_id,
     upload_status |-> status, error_message |-> error]

\* INSERT OR REPLACE INTO posted ... ; commit
RecordPosted(tbl, item, local_path, fb_post_id, status, error) ==
    { r \in tbl : r.post_id # item.post_id }
        \cup { Row(item, local_path, fb_post_id, status, error) }

\* (mutant) the result of FilesPipeline is ignored.
GetLocalFileIgnored(item, dsk) == NoPath

\* _get_local_file: the first entry of item["files"], if that file exists.
GetLocalFile(item, dsk) ==
    IF item.files = <<>> THEN NoPath
    ELSE LET path == item.files[1].path IN
         IF path \in dsk THEN path ELSE NoPath

\* (mutant) the extension of the URL path is preferred to the Content-Type.
ResolveExtUrlFirst(content_type, jpeg, url, item) ==
    LET guess == IF content_type # "" THEN GuessExtension(content_type, jpeg) ELSE ""
        ext1 == IF guess = ".jpe" THEN ".jpg" ELSE guess
        url_ext == UrlExt(url)
    IN  IF url_ext # "" THEN url_ext
        ELSE IF ext1 # "" THEN ext1
        ELSE IF item.type = "video" THEN ".mp4" ELSE ".bin"

\* Lines 190-211: extension of the downloaded file.
ResolveExt(content_type, jpeg, url, item) ==
    LET guess == IF content_type # "" THEN GuessExtension(content_type, jpeg) ELSE ""
        ext1 == IF guess = ".jpe" THEN ".jpg" ELSE guess
        url_ext == UrlExt(url)
        ext2 == IF ext1 = "" /\ url_ext # "" THEN url_ext ELSE ext1
    IN  IF ext2 # "" THEN ext2
        ELSE IF item.type = "video" THEN ".mp4"
        ELSE IF url_ext # "" THEN url_ext ELSE ".bin"

\* time.sleep(1 + attempt)
Backoff(attempt) == BackoffBase + attempt

\* str.lower() on the extensions of the model.
Lower(ext) == IF ext = ".JPG" THEN ".jpg" ELSE IF ext = ".MP4" THEN ".mp4" ELSE ext

\* `ext in (".mp4")` is a substring test on the string ".mp4".
VideoExtMatches == {"", ".", ".m", ".mp", ".mp4"}
IsVideo(item, ext) == item.type = "video" \/ ext \in VideoExtMatches
IsPhoto(item, ext) == item.type = "preview" \/ ext \in {".jpeg", ".jpg", ".png"}

\* Lines 256-260: the photo assignment comes last.
Destination(item, ext) ==
    IF IsPhoto(item, ext) THEN PhotoWebhook ELSE VideoWebhook

\* Exception texts, str(e).
ErrNoUrl == [fmt |-> "No URL provided for direct download", code |-> 0, detail |-> ""]
ErrExhausted(last_exc) ==
    [fmt |-> "Failed to download after {max_retries} attempts: {last_exc}",
     code |-> max_retries, detail |-> last_exc]
ErrMissing == [fmt |-> "local file missing after download", code |-> 0, detail |-> ""]
ErrKind == [fmt |-> "Only video and image uploads are supported", code |-> 0, detail |-> ""]
ErrOpen == [fmt |-> "[Errno 2] No such file or directory", code |-> 0, detail |-> ""]
ErrRequest == [fmt |-> "requests exception", code |-> 0, detail |-> ""]
ErrWebhook(status, text) ==
    [fmt |-> "Make webhook error {status_code}: {text}", code |-> status, detail |-> text]


\* (mutant) the type check lets the type the publisher knows as photo pass.
IsUnsupportedButPreview(type) == type \notin {"image", "video", "preview"}

\* Line 63: item.get("type") not in ("image", "video")
IsUnsupported(type) == type \notin {"image", "video"}

\* (mutant) the loop bound is off by one.
MoreAttemptsInclusive(attempt) == attempt <= max_retries

\* Line 184: while attempt < max_retries
MoreAttempts(attempt) == attempt < max_retries

\* (mutant) a kilobyte taken as 1000 bytes.
TooSmallDecimal(size) == size < 1000

\* Line 227: the sanity check on the written file.
TooSmall(size) == size < MinFileSize

\* (mutant) the acquisition-failure exit records the failure without str(e).
AcquireFailedNoMessage(tbl, item, error) ==
    RecordPosted(tbl, item, NoPath, NoId, "failed", NoError)

\* (mutant) the acquisition-failure exit drops the item without a row.
AcquireFailedUnrecorded(tbl, item, error) == tbl

\* The row written at the acquisition-failure exits (lines 76, 88, 93).
AcquireFailed(tbl, item, error) ==
    RecordPosted(tbl, item, NoPath, NoId, "failed", error)

\* (mutant) the publish-failure exit drops the item without a row.
PublishFailedUnrecorded(tbl, item, local_path, error) == tbl

\* (mutant) the publish-failure exit records the failure like an
\* acquisition failure, without the file.
PublishFailedWithoutPath(tbl, item, local_path, error) ==
    RecordPosted(tbl, item, NoPath, NoId, "failed", error)

\* The row written at the publish-failure exit (line 102).
PublishFailed(tbl, item, local_path, error) ==
    RecordPosted(tbl, item, local_path, NoId, "failed", error)

\* The row written after _upload_to_facebook returned (line 99).
PublishSucceeded(tbl, item, local_path, fb_post_id) ==
    RecordPosted(tbl, item, local_path, fb_post_id, "success", NoError)

\* The row written after the rate-limit sleep (line 111).
RecordAfterSleep(tbl, item, local_path) ==
    RecordPosted(tbl, item, local_path, NoId, "success", NoError)

\* DropItem messages, and the value of a call that returned its item.
DropUnsupported == "Unsupported Reddit post type"
DropDuplicate == "Already processed"
DropDownload == "Media download failed"
DropMissing == "Local file missing after download"
DropUpload == "FB upload failed"
Returned == "item"
Drops == {DropUnsupported, DropDuplicate, DropDownload, DropMissing, DropUpload}

\* The call ends with `result` (a DropItem raised, or the item returned);
\* its locals live until the caller takes the result (Return).
Ended(c, result) == [c EXCEPT !.pc = "done", !.result = result]

TypeOK ==
    /\ \A r \in rows : r.post_id \in PostIds
    /\ disk \subseteq [kind : {"files", "direct"}, n : {0} \cup TimeTokens, ext : STRING]
    /\ DOMAIN published = PostIds
    /\ DOMAIN call = Procs
    /\ crashes \in 0..MaxCrashes
    /\ DOMAIN requests = PostIds

Init ==
    /\ rows = {}
    /\ disk = {}
    /\ published = [i \in PostIds |-> <<>>]
    /\ call = [p \in Procs |-> IdleCall]
    /\ crashes = 0
    /\ requests = [i \in PostIds |-> 0]
    /\ spider = NewSpider

(***************************************************************************)
(* process_item, step by step.                                             *)
(***************************************************************************)
\* Lines 59-69: the type check, then the dedup check.
Begin(p, item) ==
    /\ call[p].pc = "idle"
    /\ LET c == [IdleCall EXCEPT !.item = item, !.rows0 = rows] IN
       call' = [call EXCEPT ![p] =
                  IF IsUnsupported(item.type) THEN Ended(c, DropUnsupported)
                  ELSE IF IsPosted(rows, item.post_id) THEN Ended(c, DropDuplicate)
                  ELSE [c EXCEPT !.pc = "acquire"]]
    /\ UNCHANGED <<rows, disk, published, crashes, requests, spider>>

\* Lines 72-89 up to the first fetch: a video always goes to
\* _download_direct, an image first asks _get_local_file; _download_direct
\* raises at once without a URL (lines 170-171).
Acquire(p) ==
    LET c0 == call[p]
        \* (history) the pre-fetched file of the item that exists right now
        c == [c0 EXCEPT !.pre = IF c0.item.files # <<>> /\ c0.item.files[1].path \in disk
                                 THEN c0.item.files[1].path ELSE NoPath]
        found == IF c.item.type = "video" THEN NoPath
                 ELSE GetLocalFile(c.item, disk)
    IN  /\ c.pc = "acquire"
        /\ IF found # NoPath
           THEN /\ call' = [call EXCEPT ![p] =
                               [c EXCEPT !.pc = "check", !.local_path = found]]
                /\ UNCHANGED rows
           ELSE IF c.item.url = <<>>
           THEN /\ rows' = AcquireFailed(rows, c.item, ErrNoUrl)
                /\ call' = [call EXCEPT ![p] =
                               Ended([c EXCEPT !.nrec = @ + 1], DropDownload)]
           ELSE /\ call' = [call EXCEPT ![p] = [c EXCEPT !.pc = "download"]]
                /\ UNCHANGED rows
        /\ UNCHANGED <<disk, published, crashes, requests, spider>>

\* Lines 184-238: one pass of the retry loop.  The fetch either raises
\* (connection error, timeout, raise_for_status) or delivers a body, which is
\* written to a new file before its size is checked.
Attempt(p, raises, content_type, jpeg, size, ts) ==
    LET c == call[p]
        attempt == c.attempt + 1
        ext == ResolveExt(content_type, jpeg, c.item.url, c.item)
        path == [kind |-> "direct", n |-> ts, ext |-> ext]
        failed == raises \/ TooSmall(size)
        last_exc == IF raises THEN "HTTPError" ELSE "Downloaded file too small"
        c1 == [c EXCEPT !.attempt = attempt,
                        !.bodies = Append(@, IF raises THEN 0 ELSE size),
                        !.ctype = IF raises THEN "-" ELSE content_type,
                        !.wrote = IF raises THEN NoPath ELSE path,
                        !.tries = Append(@, IF failed THEN "fail" ELSE "ok"),
                        !.waits = IF failed THEN Append(@, Backoff(attempt)) ELSE @]
    IN  /\ c.pc = "download"
        /\ disk' = IF raises THEN disk ELSE disk \cup {path}
        /\ IF ~failed
           THEN /\ call' = [call EXCEPT ![p] =
                               [c1 EXCEPT !.pc = "check", !.local_path = path]]
                /\ UNCHANGED rows
           ELSE IF MoreAttempts(attempt)
           THEN /\ call' = [call EXCEPT ![p] = c1]
                /\ UNCHANGED rows
           ELSE /\ rows' = AcquireFailed(rows, c.item, ErrExhausted(last_exc))
                /\ call' = [call EXCEPT ![p] =
                               Ended([c1 EXCEPT !.nrec = @ + 1], DropDownload)]
        /\ UNCHANGED <<published, crashes, requests, spider>>

\* Lines 92-94.
CheckLocal(p) ==
    LET c == call[p] IN
    /\ c.pc = "check"
    /\ IF c.local_path = NoPath \/ c.local_path \notin disk
       THEN /\ rows' = AcquireFailed(rows, c.item, ErrMissing)
            /\ call' = [call EXCEPT ![p] =
                           Ended([c EXCEPT !.nrec = @ + 1], DropMissing)]
       ELSE /\ call' = [call EXCEPT ![p] = [c EXCEPT !.pc = "upload"]]
            /\ UNCHANGED rows
    /\ UNCHANGED <<disk, published, crashes, requests, spider>>

\* Lines 97-98 and 100-103 with _upload_to_facebook (244-284): classify,
\* open the file, post it.  An answer that is not ok, and every exception,
\* ends the call at the publish-failure exit.
Upload(p, raises, status, text) ==
    LET c == call[p]
        ext == Lower(c.local_path.ext)
        dest == Destination(c.item, ext)
        failWith(cc, e) ==
            /\ rows' = PublishFailed(rows, c.item, c.local_path, e)
            /\ call' = [call EXCEPT ![p] =
                           Ended([cc EXCEPT !.nrec = @ + 1], DropUpload)]
            /\ UNCHANGED published
        sent == [c EXCEPT !.nreq = @ + 1, !.dest = dest,
                          !.status = IF raises THEN 0 ELSE status]
        classified == IsVideo(c.item, ext) \/ IsPhoto(c.item, ext)
    IN  /\ c.pc = "upload"
        /\ IF ~classified THEN failWith(c, ErrKind)
           ELSE IF c.local_path \notin disk THEN failWith(c, ErrOpen)
           ELSE IF raises THEN failWith(sent, ErrRequest)
           ELSE IF ~RespOk(status) THEN failWith(sent, ErrWebhook(status, text))
           ELSE /\ published' = [published EXCEPT ![c.item.post_id] = Append(@, dest)]
                /\ call' = [call EXCEPT ![p] = [sent EXCEPT !.pc = "settle", !.fb = text]]
                /\ UNCHANGED rows
        /\ requests' = IF classified /\ c.local_path \in disk
                       THEN [requests EXCEPT ![c.item.post_id] = @ + 1]
                       ELSE requests
        /\ UNCHANGED <<disk, crashes, spider>>

\* Lines 282-284 and 99, 106-107: the settling sleep, the return of
\* resp.text, the "success" row with it, and the draw of the delay.
RecordUploaded(p, delay) ==
    LET c == call[p] IN
    /\ c.pc = "settle"
    /\ rows' = PublishSucceeded(rows, c.item, c.local_path, c.fb)
    /\ call' = [call EXCEPT ![p] =
                   [c EXCEPT !.pc = "sleep", !.nrec = @ + 1, !.delay = delay]]
    /\ UNCHANGED <<disk, published, crashes, requests, spider>>

\* Lines 108-112: the rate-limit sleep ends, the row is written again and
\* the item is returned.
FinishWait(p) ==
    LET c == call[p] IN
    /\ c.pc = "sleep"
    /\ rows' = RecordAfterSleep(rows, c.item, c.local_path)
    /\ call' = [call EXCEPT ![p] =
                   Ended([c EXCEPT !.nrec = @ + 1, !.nsleep = @ + 1], Returned)]
    /\ UNCHANGED <<disk, published, crashes, requests, spider>>

\* Scrapy takes the result of the call; the frame is gone.
Return(p) ==
    /\ call[p].pc = "done"
    /\ call' = [call EXCEPT ![p] = IdleCall]
    /\ UNCHANGED <<rows, disk, published, crashes, requests, spider>>

(***************************************************************************)
(* The environment.                                                        *)
(***************************************************************************)
\* The files a call in flight will still read: the reference FilesPipeline
\* gave it, until _get_local_file has run, and its local_path, until the
\* upload has opened it.
Watched(c) ==
    (IF c.pc = "acquire" /\ c.item.files # <<>> THEN {c.item.files[1].path} ELSE {})
        \cup (IF c.pc \in {"check", "upload"} THEN {c.local_path} ELSE {})

\* FilesPipeline (ITEM_PIPELINES priority 1) stores a file under FILES_STORE.
FilesStore(fp) ==
    /\ fp \notin disk
    /\ disk' = disk \cup {fp}
    /\ UNCHANGED <<rows, published, call, crashes, requests, spider>>

\* Someone else removes a media file (the pipeline never deletes one).  Only
\* the removal of a file a call will still read changes what the pipeline does.
Cleanup(path) ==
    /\ path \in disk
    /\ \E p \in Procs : path \in Watched(call[p])
    /\ disk' = disk \ {path}
    /\ UNCHANGED <<rows, published, call, crashes, requests, spider>>

\* The process is killed inside process_item and started again: the table,
\* the files and the destination keep their state, the calls are gone.
Crash ==
    /\ crashes < MaxCrashes
    /\ \E p \in Procs : call[p].pc \notin {"idle", "done"}
    /\ call' = [p \in Procs |-> IdleCall]
    /\ crashes' = crashes + 1
    /\ UNCHANGED <<rows, disk, published, requests, spider>>

Step(p) ==
    \/ \E item \in Items : Begin(p, item)
    \/ Acquire(p)
    \/ \E raises \in BOOLEAN, content_type \in ContentTypes, jpeg \in JpegGuesses,
          size \in BodySizes, ts \in TimeTokens :
            Attempt(p, raises, content_type, jpeg, size, ts)
    \/ CheckLocal(p)
    \/ \E raises \in BOOLEAN, status \in PostStatuses, text \in PostTexts :
            Upload(p, raises, status, text)
    \/ \E delay \in RateDelays : RecordUploaded(p, delay)
    \/ FinishWait(p)
    \/ Return(p)

Env ==
    \/ \E fp \in FilesPaths : FilesStore(fp)
    \/ \E path \in disk : Cleanup(path)

\* A run without kills: Scrapy's serial driving of the pipeline.
Next == (\E p \in SerialProcs : Step(p)) \/ Env
Spec == Init /\ [][Next]_vars

\* The same run with kills and restarts.
NextCrash == Next \/ Crash
SpecCrash == Init /\ [][NextCrash]_vars

(***************************************************************************)
(* _download_direct on its own, over a wider range of URLs and responses:  *)
(* process_item up to the end of the acquisition of a post without a       *)
(* pre-fetched file.                                                       *)
(***************************************************************************)
FetchUrls == Urls \cup { <<"i", ".png">>, <<"v", "?", "x", ".gif">> }
FetchContentTypes == ContentTypes \cup { "application/x-unknown" }
FetchItems == [post_id : PostIds, type : SupportedTypes, url : FetchUrls, files : {<<>>}]

NextFetch ==
    \E p \in SerialProcs :
        \/ \E item \in FetchItems : Begin(p, item)
        \/ Acquire(p)
        \/ \E raises \in BOOLEAN, content_type \in FetchContentTypes,
              jpeg \in JpegGuesses, size \in BodySizes, ts \in TimeTokens :
                Attempt(p, raises, content_type, jpeg, size, ts)
        \/ Return(p)
SpecFetch == Init /\ [][NextFetch]_vars

(***************************************************************************)
(* _upload_to_facebook over a wider range of file names: image posts whose *)
(* file FilesPipeline pre-fetched, one stored file at a time.              *)
(***************************************************************************)
PublishExts == {"", ".mp4", ".mov", ".webm", ".mkv", ".jpeg", ".jpg", ".png", ".JPG", ".gif"}
PublishPaths == { [kind |-> "files", n |-> 0, ext |-> e] : e \in PublishExts }
PublishItems ==
    [post_id : PostIds, type : {"image"}, url : {<<>>},
     files : { <<[path |-> fp]>> : fp \in PublishPaths }]

NextPublish ==
    \/ \E fp \in PublishPaths : disk = {} /\ FilesStore(fp)
    \/ \E p \in SerialProcs :
        \/ \E item \in PublishItems : Begin(p, item)
        \/ Acquire(p)
        \/ CheckLocal(p)
        \/ \E raises \in BOOLEAN, status \in PostStatuses, text \in PostTexts :
                Upload(p, raises, status, text)
        \/ \E delay \in RateDelays : RecordUploaded(p, delay)
        \/ FinishWait(p)
        \/ Return(p)
SpecPublish == Init /\ [][NextPublish]_vars

(***************************************************************************)
(* A parallelized caller: two process_item() calls in flight over the same *)
(* table, interleaved at the steps of the model (each lookup and each row  *)
(* write is one step), on image posts with a pre-fetched file.             *)
(***************************************************************************)
ParItems == [post_id : PostIds, type : {"image"}, url : {<<>>}, files : FilesRefs \ {<<>>}]

NextPar ==
    \/ \E fp \in FilesPaths : FilesStore(fp)
    \/ \E p \in Procs :
        \/ \E item \in ParItems : Begin(p, item)
        \/ Acquire(p)
        \/ CheckLocal(p)
        \/ \E raises \in BOOLEAN, status \in PostStatuses, text \in PostTexts :
                Upload(p, raises, status, text)
        \/ \E delay \in RateDelays : RecordUploaded(p, delay)
        \/ FinishWait(p)
        \/ Return(p)
SpecPar == Init /\ [][NextPar]_vars

(***************************************************************************)
(* RedditMediaSpider.  One request is in flight at a time (start_requests  *)
(* and each parse yield at most one), so the pages are parsed one after    *)
(* the other; the body of the for loop is one step per post of the page.   *)
(***************************************************************************)
\* p.get("id") of a listing entry; 0 is a missing or empty id.
ListingIds == 0..MaxSpiderPosts
\* What the entry carries: is_video with or without a fallback_url, else a
\* preview with or without images, else neither.
ListingKinds == {"video", "video_nofallback", "image", "preview_empty", "other"}
Listing == [id : ListingIds, kind : ListingKinds]
\* data["data"]["after"]; "" is null.
AfterTokens == {"", "t3_a", "t3_b"}

\* (mutant) the video limit is tested with > .
VideoQuotaFullOffByOne(n) == n > VideoTarget

\* Line 110.
VideoQuotaFull(n) == n >= VideoTarget
\* Line 127.
ImageQuotaFull(n) == n >= ImageTarget
\* Lines 78, 84, 140.
TargetsReached(s) == s.video_count >= VideoTarget /\ s.image_count >= ImageTarget

\* start_requests (lines 30-46).
StartRequests ==
    /\ spider.pc = "new"
    /\ spider' = [spider EXCEPT !.pc = "wait"]
    /\ UNCHANGED <<rows, disk, published, call, crashes, requests>>

\* parse, lines 48-80: the response of the request in flight arrives.
ParseBegin(json_ok) ==
    /\ spider.pc = "wait"
    /\ spider' = [spider EXCEPT !.pc =
                     IF ~json_ok \/ TargetsReached(spider) THEN "closed" ELSE "loop"]
    /\ UNCHANGED <<rows, disk, published, call, crashes, requests>>

\* Lines 82-137: one pass of the for loop, on the next entry of the page.
LoopPost(post) ==
    LET s == spider
        seen == [s EXCEPT !.seen_ids = @ \cup {post.id}]
        yield(t, e) == [t EXCEPT !.emitted = @ \cup {e}]
    IN  /\ s.pc = "loop"
        /\ spider' =
             IF TargetsReached(s) THEN [s EXCEPT !.pc = "closed"]
             ELSE IF post.id = 0 THEN s
             ELSE IF post.id \in s.seen_ids THEN s
             ELSE IF post.kind \in {"video", "video_nofallback"}
             THEN IF VideoQuotaFull(s.video_count) THEN seen
                  ELSE IF post.kind = "video"
                  THEN yield([seen EXCEPT !.video_count = @ + 1, !.out_video = @ + 1],
                             [post_id |-> post.id, type |-> "video"])
                  ELSE seen
             ELSE IF post.kind \in {"image", "preview_empty"}
             THEN IF ImageQuotaFull(s.image_count) THEN seen
                  ELSE IF post.kind = "image"
                  THEN yield([seen EXCEPT !.image_count = @ + 1, !.out_image = @ + 1],
                             [post_id |-> post.id, type |-> "image"])
                  ELSE seen
             ELSE seen
        /\ UNCHANGED <<rows, disk, published, call, crashes, requests>>

\* Lines 139-168: the page is exhausted.
LoopEnd(after) ==
    /\ spider.pc = "loop"
    /\ spider' =
         IF TargetsReached(spider) THEN [spider EXCEPT !.pc = "closed"]
         ELSE IF after = "" THEN [spider EXCEPT !.pc = "closed"]
         ELSE IF after = spider.last_after THEN [spider EXCEPT !.pc = "closed"]
         ELSE [spider EXCEPT !.last_after = after, !.pc = "wait"]
    /\ UNCHANGED <<rows, disk, published, call, crashes, requests>>

NextSpider ==
    \/ StartRequests
    \/ \E json_ok \in BOOLEAN : ParseBegin(json_ok)
    \/ \E post \in Listing : LoopPost(post)
    \/ \E after \in AfterTokens : LoopEnd(after)
SpecSpider == Init /\ [][NextSpider]_vars

(***************************************************************************)
(* Properties.                                                             *)
(***************************************************************************)
HasRow(tbl, post_id) == \E r \in tbl : r.post_id = post_id
RowsOf(tbl, post_id) == { r \in tbl : r.post_id = post_id }

\* The calls that got past the type check and the dedup check.
Skips == {DropUnsupported, DropDuplicate}
Finished(c) == c.pc = "done"
Processed(c) == Finished(c) /\ c.result \notin Skips

\* C1: the table holds at most one row per post_id, and a call for a post_id
\* that already has a row, whatever its upload_status, is skipped without a
\* write and leaves the table as it was: as a duplicate ("Already
\* processed") whenever the item passes the type check that precedes the
\* dedup check.
C1_OneRowAndDuplicateSkip ==
    /\ \A r1, r2 \in rows : r1.post_id = r2.post_id => r1 = r2
    /\ \A p \in Procs :
         LET c == call[p] IN
         (c.pc # "idle" /\ HasRow(c.rows0, c.item.post_id)) =>
            /\ Finished(c)
            /\ c.result \in Skips
            /\ (c.item.type \in SupportedTypes => c.result = DropDuplicate)
            /\ c.nrec = 0
            /\ rows = c.rows0

\* C1 witness: a call skipped as a duplicate of a post recorded as failed.
C1_Witness ==
    \E p \in Procs :
        /\ Finished(call[p])
        /\ call[p].result = DropDuplicate
        /\ \E r \in rows : r.post_id = call[p].item.post_id /\ r.upload_status = "failed"

\* C2: over runs with kills and restarts, the media of a post_id is uploaded
\* to the destination at most once.
C2_UploadedAtMostOnce == \A i \in PostIds : Len(published[i]) <= 1

\* C3: a call that is neither a duplicate skip nor an unsupported-type skip
\* invokes _record_posted exactly once.
C3_RecordedExactlyOnce ==
    \A p \in Procs : Processed(call[p]) => call[p].nrec = 1

\* C4: after a call whose acquisition succeeded and whose upload was answered
\* with identifier X, the row of the post has status "success", the acquired
\* file as local_path and X as fb_post_id.
C4_SuccessRowKeepsId ==
    \A p \in Procs :
        LET c == call[p] IN
        (Finished(c) /\ c.result = Returned) =>
            \E r \in rows :
                /\ r.post_id = c.item.post_id
                /\ r.upload_status = "success"
                /\ r.local_path = c.local_path
                /\ r.fb_post_id = c.fb

\* C5: a call for a post_id that already has a row makes no fetch attempt,
\* acquires no file, sends no upload, does not wait for the rate limit and
\* writes nothing: the table is as it was and the item is dropped.
C5_DuplicateDoesNothing ==
    \A p \in Procs :
        LET c == call[p] IN
        (c.pc # "idle" /\ HasRow(c.rows0, c.item.post_id)) =>
            /\ c.attempt = 0 /\ c.tries = <<>> /\ c.waits = <<>>
            /\ c.local_path = NoPath
            /\ c.nreq = 0 /\ c.nsleep = 0 /\ c.nrec = 0
            /\ rows = c.rows0
            /\ c.result \in Drops

\* C5 witness: a supported item dropped as a duplicate of a post recorded as
\* uploaded.
C5_Witness ==
    \E p \in Procs :
        /\ Finished(call[p])
        /\ call[p].result = DropDuplicate
        /\ \E r \in rows : r.post_id = call[p].item.post_id /\ r.upload_status = "success"

\* C6: a call on an item whose type is not image or video is rejected
\* before any I/O: no fetch attempt, no upload request, no row written, and
\* the post_id is seen afterwards only if it was seen before.
C6_UnsupportedDoesNothing ==
    \A p \in Procs :
        LET c == call[p] IN
        (c.pc # "idle" /\ c.item.type \notin SupportedTypes) =>
            /\ Finished(c)
            /\ c.result = DropUnsupported
            /\ c.attempt = 0 /\ c.tries = <<>>
            /\ c.nreq = 0 /\ c.nrec = 0 /\ c.nsleep = 0
            /\ rows = c.rows0
            /\ HasRow(rows, c.item.post_id) <=> HasRow(c.rows0, c.item.post_id)

\* C6 witness: a "preview" item with a URL and a pre-fetched file, rejected
\* while its post_id has no row.
C6_Witness ==
    \E p \in Procs :
        /\ Finished(call[p])
        /\ call[p].item.type = "preview"
        /\ call[p].item.url # <<>>
        /\ call[p].item.files # <<>>
        /\ call[p].result = DropUnsupported
        /\ ~HasRow(rows, call[p].item.post_id)

\* The acquisition of a finished call failed: _download_direct raised
\* (no URL, or max_retries failed attempts), or the file was gone at line 92.
AllFailed(tries) ==
    Len(tries) = max_retries /\ \A i \in 1..Len(tries) : tries[i] = "fail"
AcquisitionFailed(c) ==
    /\ Processed(c)
    /\ \/ AllFailed(c.tries)
       \/ c.local_path = NoPath /\ c.item.url = <<>>
       \/ c.result = DropMissing

\* C7: whenever the acquisition of a supported, not yet recorded post fails,
\* the call ends with the item dropped and a row with status "failed", a
\* non-empty error_message and NULL local_path and fb_post_id, and no upload
\* request was sent.
C7_AcquisitionFailureRecorded ==
    \A p \in Procs :
        LET c == call[p] IN
        AcquisitionFailed(c) =>
            /\ c.result \in {DropDownload, DropMissing}
            /\ c.nreq = 0
            /\ RowsOf(rows, c.item.post_id) # {}
            /\ \A r \in RowsOf(rows, c.item.post_id) :
                 /\ r.upload_status = "failed"
                 /\ r.error_message # NoError /\ r.error_message.fmt # ""
                 /\ r.local_path = NoPath
                 /\ r.fb_post_id = NoId

\* C7 witness: all three attempts failed.
C7_Witness ==
    \E p \in Procs :
        /\ Finished(call[p])
        /\ AllFailed(call[p].tries)
        /\ call[p].result = DropDownload

\* C8: when the acquisition succeeded and the destination answers the upload
\* with a non-success status S, the call ends with the item dropped and a row
\* with status "failed", an error_message that carries S, the acquired file
\* as local_path and a NULL fb_post_id.
C8_PublishFailureRecorded ==
    \A p \in Procs :
        LET c == call[p] IN
        (Finished(c) /\ c.status # 0 /\ ~RespOk(c.status)) =>
            /\ c.result = DropUpload
            /\ c.local_path # NoPath
            /\ RowsOf(rows, c.item.post_id) # {}
            /\ \A r \in RowsOf(rows, c.item.post_id) :
                 /\ r.upload_status = "failed"
                 /\ r.error_message.code = c.status
                 /\ r.local_path = c.local_path
                 /\ r.fb_post_id = NoId

\* C8 witness (scenario C): a video whose upload is answered with 500.
C8_Witness ==
    \E p \in Procs :
        /\ Finished(call[p])
        /\ call[p].item.type = "video"
        /\ call[p].status = 500
        /\ call[p].result = DropUpload

\* The call has run the acquisition step of lines 72-89 past _get_local_file.
PastLookup(c) == c.pc \notin {"idle", "acquire"} /\ c.result \notin Skips

\* C9 as stated: for every supported post whose pre-fetched file exists, the
\* acquisition uses that file as local_path and makes no fetch attempt.
C9_PrefetchedUsedForAll ==
    \A p \in Procs :
        LET c == call[p] IN
        (PastLookup(c) /\ c.pre # NoPath) =>
            c.pc # "download" /\ c.attempt = 0 /\ c.local_path = c.pre

\* C9 amended: for every image post whose pre-fetched file exists the
\* acquisition uses that file as local_path and makes no fetch attempt, and
\* an image post is fetched only when no pre-fetched file exists; a video
\* post is always fetched directly, pre-fetched file or not.
C9_PrefetchedUsedForImages ==
    \A p \in Procs :
        LET c == call[p] IN
        PastLookup(c) =>
            /\ (c.item.type = "image" /\ c.pre # NoPath) =>
                  c.pc # "download" /\ c.attempt = 0 /\ c.local_path = c.pre
            /\ (c.item.type = "image" /\ (c.pc = "download" \/ c.attempt > 0)) =>
                  c.pre = NoPath
            /\ c.item.type = "video" =>
                  c.local_path.kind # "files"
                  /\ (c.item.url # <<>> /\ c.pc \notin {"download"} => c.attempt > 0)

\* C9 witness: an image post past the existence check with its pre-fetched
\* file as local_path.
C9_Witness ==
    \E p \in Procs :
        /\ call[p].pc = "upload"
        /\ call[p].item.type = "image"
        /\ call[p].pre # NoPath
        /\ call[p].local_path = call[p].pre

\* C10: _download_direct makes at most max_retries attempts, none after a
\* successful one, whose path it returns; it raises from the loop only after
\* max_retries failed attempts; a fetch that fails twice and then succeeds
\* makes exactly 3 attempts; the waits after the failed attempts are strictly
\* increasing and the i-th is at least i + 1 seconds.
C10_RetryPolicy ==
    \A p \in Procs :
        LET c == call[p] IN
        /\ Len(c.tries) <= max_retries
        /\ c.attempt = Len(c.tries)
        /\ \A i \in 1..Len(c.tries) : c.tries[i] = "ok" => i = Len(c.tries)
        /\ (c.tries # <<>> /\ c.tries[Len(c.tries)] = "ok") =>
              c.pc # "download" /\ c.local_path.kind = "direct"
        /\ c.pc = "download" => Len(c.tries) < max_retries
        /\ (c.result = DropDownload /\ c.item.url # <<>>) => AllFailed(c.tries)
        /\ c.tries = <<"fail", "fail", "ok">> => c.attempt = 3
        /\ Len(c.waits) = Cardinality({i \in 1..Len(c.tries) : c.tries[i] = "fail"})
        /\ \A i \in 1..Len(c.waits) : c.waits[i] >= i + 1
        /\ \A i, j \in 1..Len(c.waits) : i < j => c.waits[i] < c.waits[j]

\* C10 witness: two failed attempts, then a successful one.
C10_Witness ==
    \E p \in Procs :
        /\ call[p].tries = <<"fail", "fail", "ok">>
        /\ call[p].waits = <<2, 3>>
        /\ call[p].local_path.kind = "direct"

\* C11: a fetched body of fewer than 1024 bytes is never returned by
\* _download_direct: it is a failed attempt that uses up one of the 3
\* retries, and when every attempt delivers such a body the acquisition
\* fails; a body of 1024 bytes or more is accepted.
C11_MinimumSize ==
    \A p \in Procs :
        LET c == call[p]
            small(i) == c.bodies[i] > 0 /\ c.bodies[i] < 1024
        IN  /\ Len(c.bodies) = c.attempt /\ Len(c.tries) = c.attempt
            /\ c.attempt <= 3
            /\ \A i \in 1..Len(c.bodies) :
                 /\ small(i) => c.tries[i] = "fail"
                 /\ c.bodies[i] >= 1024 => c.tries[i] = "ok"
            /\ (c.attempt > 0 /\ small(c.attempt)) =>
                 c.local_path = NoPath /\ c.pc \in {"download", "done"}
            /\ (c.attempt = 3 /\ \A i \in 1..3 : small(i)) =>
                 /\ Finished(c) /\ c.result = DropDownload
                 /\ \E r \in rows : r.post_id = c.item.post_id /\ r.upload_status = "failed"
            /\ (c.attempt > 0 /\ c.bodies[c.attempt] >= 1024) =>
                 c.pc # "download" /\ c.local_path.kind = "direct"
                 /\ (c.pc = "check" => c.result = "none")

\* C11 witness: bodies of 500 and 1023 bytes were rejected, one of 1024 bytes
\* is accepted on the third attempt.
C11_Witness ==
    \E p \in Procs :
        /\ call[p].bodies = <<500, 1023, 1024>>
        /\ call[p].tries = <<"fail", "fail", "ok">>
        /\ call[p].pc = "check"

\* The order C12 states: the extension mapped from the Content-Type, else the
\* extension of the URL path, else .mp4 for a video, else .bin.
MappedExt(content_type) == IF content_type = "image/jpeg" THEN ".jpg" ELSE ""
ExpectedExt(content_type, url, type) ==
    IF MappedExt(content_type) # "" THEN MappedExt(content_type)
    ELSE IF UrlExt(url) # "" THEN UrlExt(url)
    ELSE IF type = "video" THEN ".mp4"
    ELSE ".bin"

\* C12: the extension of the file an attempt of _download_direct wrote is
\* the one mapped from the Content-Type of the response when it maps to one
\* (never .jpe), else the extension of the URL path when it has one, else
\* .mp4 for a video post, else .bin; image/jpeg without a URL extension gives
\* .jpg, and a video with an unrecognized Content-Type and no URL extension
\* gives .mp4.  The path returned is that of the file written last.
C12_ExtensionOrder ==
    \A p \in Procs :
        LET c == call[p] IN
        /\ c.wrote # NoPath =>
              /\ c.wrote.ext = ExpectedExt(c.ctype, c.item.url, c.item.type)
              /\ c.wrote.ext # ".jpe"
              /\ c.wrote \in disk
              /\ (c.ctype = "image/jpeg" /\ UrlExt(c.item.url) = "") => c.wrote.ext = ".jpg"
              /\ (c.item.type = "video" /\ c.ctype = "application/x-unknown"
                    /\ UrlExt(c.item.url) = "") => c.wrote.ext = ".mp4"
        /\ (c.attempt > 0 /\ c.tries[c.attempt] = "ok") => c.local_path = c.wrote
        /\ (c.attempt > 0) => (c.wrote = NoPath <=> c.ctype = "-")

\* C12 witness: a video with an unrecognized Content-Type and a URL whose
\* only suffix is in the query string was written as .mp4.
C12_Witness ==
    \E p \in Procs :
        /\ call[p].item.type = "video"
        /\ call[p].item.url = <<"v", "?", "x", ".gif">>
        /\ call[p].ctype = "application/x-unknown"
        /\ call[p].pc = "check"
        /\ call[p].local_path.ext = ".mp4"

\* The call has run the classification of _upload_to_facebook.
Classified(c) == c.pc \in {"settle", "sleep"} \/ (Finished(c) /\ c.result \in {DropUpload, Returned})
\* The publisher refused the file of the call as neither video nor photo.
RejectedKind(c) ==
    /\ Finished(c) /\ c.result = DropUpload /\ c.nreq = 0
    /\ \E r \in rows : r.post_id = c.item.post_id /\ r.error_message = ErrKind

\* C13: the declared type of the post decides the kind before the file
\* extension does: the upload of a post declared video goes to the video
\* destination and that of a post declared image to the photo destination,
\* whatever the extension of the local file, and neither is refused as
\* unclassifiable.
C13_DeclaredTypeFirst ==
    \A p \in Procs :
        LET c == call[p] IN
        Classified(c) =>
            /\ (c.item.type = "video" /\ c.nreq > 0) => c.dest = VideoWebhook
            /\ (c.item.type = "image" /\ c.nreq > 0) => c.dest = PhotoWebhook
            /\ c.item.type \in {"video", "image"} => ~RejectedKind(c)

\* C14: when the extension decides the kind (the post is declared image,
\* which the publisher does not take as a kind), a file named .mp4, .mov,
\* .webm or .mkv is uploaded as video and one named .jpeg, .jpg or .png, in
\* any case, as photo; a file with any other extension, the empty one
\* included, is refused as unclassifiable and no upload request is sent.
C14_ExtensionSets ==
    \A p \in Procs :
        LET c == call[p]
            ext == Lower(c.local_path.ext)
        IN  (Classified(c) /\ c.item.type = "image" /\ c.local_path \in disk) =>
               IF ext \in {".mp4", ".mov", ".webm", ".mkv"}
               THEN c.nreq = 1 /\ c.dest = VideoWebhook
               ELSE IF ext \in {".jpeg", ".jpg", ".png"}
               THEN c.nreq = 1 /\ c.dest = PhotoWebhook
               ELSE c.nreq = 0 /\ RejectedKind(c)

\* C15: a finished call whose acquisition succeeded has performed the
\* rate-limit wait exactly once, with a delay within [UPLOAD_MIN_DELAY,
\* UPLOAD_MAX_DELAY], whether its publish step succeeded or failed; a call
\* that ended as a duplicate, as unsupported or in an acquisition failure
\* has not waited.
C15_WaitAfterAcquired ==
    \A p \in Procs :
        LET c == call[p] IN
        Finished(c) =>
            IF c.result \in {DropUpload, Returned}
            THEN /\ c.nsleep = 1
                 /\ c.delay >= UPLOAD_MIN_DELAY /\ c.delay <= UPLOAD_MAX_DELAY
            ELSE c.nsleep = 0

\* C16: the row of the post is committed before the rate-limit wait begins
\* and no step of a call that is in the wait, its end included, writes to
\* the table, so that a kill during the wait leaves the row the completed
\* wait leaves.
C16_NoWriteAfterWait ==
    [][\A p \in Procs :
          call[p].pc = "sleep" =>
             /\ HasRow(rows, call[p].item.post_id)
             /\ rows' = rows]_vars

\* C17: with the calls of a parallelized caller interleaved, the table never
\* holds more than one row for a post_id and the media of a post_id is
\* uploaded at most once.
C17_InterleavedCallsSafe ==
    /\ \A r1, r2 \in rows : r1.post_id = r2.post_id => r1 = r2
    /\ \A i \in PostIds : Len(published[i]) <= 1

\* The upload request of the call failed: it raised, or the answer was not ok.
UploadFailed(c) == c.nreq > 0 /\ (c.status = 0 \/ ~RespOk(c.status))

\* C18: publish is never retried.  A call sends at most one upload request;
\* a failed or refused upload ends the call at once with the item dropped
\* and the row of the post recorded as failed; and no post_id ever receives
\* a second upload request, in that call or in a later one.
C18_PublishNotRetried ==
    /\ \A i \in PostIds : requests[i] <= 1
    /\ \A p \in Procs :
         LET c == call[p] IN
         /\ c.nreq <= 1
         /\ (UploadFailed(c) \/ (Finished(c) /\ c.result = DropUpload)) =>
               /\ Finished(c) /\ c.result = DropUpload
               /\ c.fb = NoId
               /\ RowsOf(rows, c.item.post_id) # {}
               /\ \A r \in RowsOf(rows, c.item.post_id) : r.upload_status = "failed"
         /\ (c.pc # "idle" /\ HasRow(c.rows0, c.item.post_id)) => c.nreq = 0

\* C18 witness: a call on a post whose upload an earlier call saw answered
\* with 500 is skipped; the post has had its one request.
C18_Witness ==
    \E p \in Procs :
        /\ Finished(call[p])
        /\ call[p].result = DropDuplicate
        /\ requests[call[p].item.post_id] = 1
        /\ \E r \in call[p].rows0 :
              /\ r.post_id = call[p].item.post_id
              /\ r.upload_status = "failed"
              /\ r.error_message.code = 500

\* C19: every row of the table has status success or failed; a success row
\* has a local_path and no error_message; a row with an fb_post_id is a
\* success row; a failed row has an error_message and no fb_post_id.
C19_RowsWellFormed ==
    \A r \in rows :
        /\ r.upload_status \in {"success", "failed"}
        /\ r.upload_status = "success" =>
              r.local_path # NoPath /\ r.error_message = NoError
        /\ r.fb_post_id # NoId => r.upload_status = "success"
        /\ r.upload_status = "failed" =>
              r.error_message # NoError /\ r.fb_post_id = NoId

\* C19 witness: the table holds the success row of an upload answered with
\* an identifier, written while the call is in the rate-limit wait.
C19_Witness ==
    \E p \in Procs :
        /\ call[p].pc = "sleep"
        /\ \E r \in rows :
              /\ r.post_id = call[p].item.post_id
              /\ r.upload_status = "success"
              /\ r.fb_post_id = "987"
              /\ r.local_path = call[p].local_path

EmittedOf(type) == { e \in spider.emitted : e.type = type }

\* The counters of the spider against the items it has yielded.
SpiderCounts ==
    /\ spider.video_count <= 2 /\ spider.image_count <= 3
    /\ spider.video_count = spider.out_video
    /\ spider.image_count = spider.out_image
    /\ Cardinality(EmittedOf("video")) = spider.out_video
    /\ Cardinality(EmittedOf("image")) = spider.out_image
    /\ Cardinality({ e.post_id : e \in spider.emitted }) = spider.out_video + spider.out_image
    /\ { e.post_id : e \in spider.emitted } \subseteq spider.seen_ids

\* A step from a state where both quotas are reached: no request is in
\* flight before or after it, and it yields nothing.
StopsAtQuota ==
    (spider.video_count >= 2 /\ spider.image_count >= 3) =>
        /\ spider.pc # "wait" /\ spider'.pc # "wait"
        /\ spider'.emitted = spider.emitted
        /\ spider'.out_video = spider.out_video /\ spider'.out_image = spider.out_image
        /\ spider'.last_after = spider.last_after

\* C20: the spider emits at most 2 video items and at most 3 image items,
\* video_count and image_count each being the number of items of that type
\* emitted; it never emits two items with the same post_id; and from a
\* state where both quotas are reached it emits no further item and issues
\* no further page request.
C20_SpiderQuota == []SpiderCounts /\ [][StopsAtQuota]_vars

\* C20 witness: both quotas were reached on the second page and the spider
\* has stopped, past entries it had to refuse.
C20_Witness ==
    /\ spider.pc = "closed"
    /\ spider.video_count = 2 /\ spider.image_count = 3
    /\ spider.last_after # ""
    /\ Cardinality(spider.seen_ids) = 6
    /\ Cardinality(spider.emitted) = 5

====
